---- MODULE Spec2Model ----
(***************************************************************************)
(* Model of the medical-denial dashboard client: the status/field          *)
(* normalizer (lib/api-utils), the request gateway (lib/api-service), the  *)
(* upload modal, the dashboard list, the denial detail view and the        *)
(* backend-health badge.                                                   *)
(*                                                                         *)
(* One screen instance is modelled at a time: `screen` says which one, and *)
(* every action is guarded by it.  A JavaScript value is a tagged record   *)
(* (Undefined, JNull, Str, Num); a nullable object is the record `null`;   *)
(* a nullable display string is the string NoText.                         *)
(***************************************************************************)
EXTENDS Integers, Sequences, FiniteSets, TLC

VARIABLES
    screen,          \* which screen instance this behaviour is about
    event,           \* the last event handled (observation only)
    \* ---- normalizer harness
    rawDenial,       \* the backend record handed to normalizeDenial
    normalized,      \* the Denial it returned, or null before the call
    warned,          \* TRUE iff console.warn was called by that call
    \* ---- upload modal (UploadDenialModal) and its caller
    isOpen,          \* showUploadModal of the dashboard
    file,            \* useState<File | null>
    isUploading,
    uploadProgress,
    uploadError,     \* the modal's `error` state
    success,
    timeoutWarning,
    uploads,         \* upload requests in flight: <<[file, loaded]>>
    closeTimers,     \* pending 2 s auto-close timers, oldest first
    uploadsStarted,  \* number of upload requests issued so far
    onSuccessCalls,  \* calls of the caller's onSuccess per finished timer
    lastTimerCloses, \* onClose calls counted for the upload whose timer fired last
    \* ---- denial detail view (DenialDetailPage)
    denial,          \* useState<DenialDetail | null>
    isLoading,
    error,           \* the page's `error` state
    isAnalyzing,
    rcaResult,       \* useState<RCAResult | null>
    isPreparingAppeal,
    appealResult,    \* useState<AppealResult | null>
    analysisStatus,
    loadRequests,    \* GET /Denials/{id} requests in flight
    rcaRequests,     \* RCA requests in flight: <<[denial]>>, the denial of the click
    appealRequests,  \* appeal requests in flight: <<[denial]>>
    statusTimers,    \* pending 3 s timers that clear analysisStatus
    requestsStarted, \* requests the page has issued so far
    \* ---- dashboard list (DashboardPage)
    denials,         \* useState<Denial[]>
    listLoading,     \* the dashboard's `isLoading` state
    listError,       \* the dashboard's `error` state
    listRequests,    \* GET /Denials requests in flight, by number
    fetchesStarted,
    \* ---- harness for single calls of a function
    call,            \* [fn, arg]: the function called and its argument
    result,          \* what the call returned or threw, or null before it
    \* ---- backend-health badge (ApiStatus)
    mounted,
    badgeStatus,     \* the badge's `status`: "checking" | "online" | "offline" | "error"
    lastCheck,
    interval,        \* TRUE while the 30 s interval is set
    checks,          \* the checks whose fetch is in flight, by number
    abortTimers,     \* the checks whose 5 s abort timer is pending
    checksStarted,
    lateUpdates      \* state updates issued after the unmount

nvars == <<rawDenial, normalized, warned>>
uvars == <<isOpen, file, isUploading, uploadProgress, uploadError, success,
           timeoutWarning, uploads, closeTimers, uploadsStarted,
           onSuccessCalls, lastTimerCloses>>
dvars == <<denial, isLoading, error, isAnalyzing, rcaResult, isPreparingAppeal,
           appealResult, analysisStatus, loadRequests, rcaRequests,
           appealRequests, statusTimers, requestsStarted>>
lvars == <<denials, listLoading, listError, listRequests, fetchesStarted>>
cvars == <<call, result>>
svars == <<mounted, badgeStatus, lastCheck, interval, checks, abortTimers,
           checksStarted, lateUpdates>>
vars == <<screen, event, nvars, uvars, dvars, lvars, cvars, svars>>

\* What the actions of one screen leave alone.
otherThanNormalizer == <<screen, uvars, dvars, lvars, cvars, svars>>
otherThanUpload == <<screen, nvars, dvars, lvars, cvars, svars>>
otherThanDetail == <<screen, nvars, uvars, lvars, cvars, svars>>
otherThanList == <<screen, nvars, uvars, dvars, cvars, svars>>
otherThanCalls == <<screen, nvars, uvars, dvars, lvars, svars>>
otherThanStatus == <<screen, nvars, uvars, dvars, lvars, cvars>>

----------------------------------------------------------------------------
(* JavaScript values *)

null == [null |-> TRUE]
NoText == "<null>"

Undefined == [t |-> "undefined"]
JNull == [t |-> "null"]
Str(s) == [t |-> "string", v |-> s]
Num(n) == [t |-> "number", v |-> n]

\* JavaScript truthiness, as `a || b` tests it.
Truthy(x) ==
    CASE x.t = "undefined" -> FALSE
      [] x.t = "null" -> FALSE
      [] x.t = "string" -> x.v # ""
      [] x.t = "number" -> x.v # 0
      [] OTHER -> TRUE

\* a || b
Or(a, b) == IF Truthy(a) THEN a ELSE b

\* x?.toString(): undefined for undefined and null, else the string form.
OptToString(x) ==
    CASE x.t \in {"undefined", "null"} -> Undefined
      [] x.t = "number" -> Str(ToString(x.v))
      [] OTHER -> x

IsNullish(x) == x.t \in {"undefined", "null"}

----------------------------------------------------------------------------
(* Strings with structure.  A status string is a sequence of pieces, each   *)
(* either white space or a word; its text is their concatenation.           *)

WhiteSpace == {" ", "\t"}

RECURSIVE Text(_)
Text(pieces) ==
    IF pieces = <<>> THEN "" ELSE Head(pieces) \o Text(Tail(pieces))

RECURSIVE TrimStart(_)
TrimStart(pieces) ==
    IF pieces # <<>> /\ Head(pieces) \in WhiteSpace
    THEN TrimStart(Tail(pieces))
    ELSE pieces

RECURSIVE TrimEnd(_)
TrimEnd(pieces) ==
    IF pieces # <<>> /\ pieces[Len(pieces)] \in WhiteSpace
    THEN TrimEnd(SubSeq(pieces, 1, Len(pieces) - 1))
    ELSE pieces

\* String.prototype.trim
Trim(pieces) == TrimEnd(TrimStart(pieces))

----------------------------------------------------------------------------
(* Status/Field Normalizer: normalizeDenial *)

ValidStatuses == {"In Review", "Appeal Filed", "Denied", "Resolved"}

\* const backendStatus = rawDenial.status?.toString().trim()
BackendStatus(raw) ==
    CASE IsNullish(raw.status) -> Undefined
      [] raw.status.t = "number" -> Str(Text(Trim(<<ToString(raw.status.v)>>)))
      [] OTHER -> Str(Text(Trim(raw.status.v)))

\* The switch of normalizeDenial with a case dropped (for a mutation check).
NormalizedStatusNoAppealGenerated(raw) ==
    LET b == BackendStatus(raw) IN
    CASE b = Str("New") -> "In Review"
      [] b = Str("In Review") -> "In Review"
      [] b = Str("RCA Completed") -> "In Review"
      [] b = Str("Appeal Filed") -> "Appeal Filed"
      [] b = Str("Denied") -> "Denied"
      [] b = Str("Resolved") -> "Resolved"
      [] OTHER -> "In Review"

\* The default branch leaving the backend string in place instead of coercing.
NormalizedStatusRaw(raw) ==
    LET b == BackendStatus(raw) IN
    CASE b = Str("New") -> "In Review"
      [] b = Str("In Review") -> "In Review"
      [] b = Str("RCA Completed") -> "In Review"
      [] b = Str("Appeal Generated") -> "Appeal Filed"
      [] b = Str("Appeal Filed") -> "Appeal Filed"
      [] b = Str("Denied") -> "Denied"
      [] b = Str("Resolved") -> "Resolved"
      [] OTHER -> IF b.t = "string" THEN b.v ELSE NoText

\* The switch on backendStatus: the value normalizedStatus ends with.
NormalizedStatus(raw) ==
    LET b == BackendStatus(raw) IN
    CASE b = Str("New") -> "In Review"
      [] b = Str("In Review") -> "In Review"
      [] b = Str("RCA Completed") -> "In Review"
      [] b = Str("Appeal Generated") -> "Appeal Filed"
      [] b = Str("Appeal Filed") -> "Appeal Filed"
      [] b = Str("Denied") -> "Denied"
      [] b = Str("Resolved") -> "Resolved"
      [] OTHER -> IF b.t = "string" /\ b.v \in ValidStatuses
                  THEN b.v
                  ELSE "In Review"

\* TRUE iff the call reaches console.warn (the else of the default branch).
StatusWarning(raw) ==
    LET b == BackendStatus(raw) IN
    /\ b \notin {Str("New"), Str("In Review"), Str("RCA Completed"),
                 Str("Appeal Generated"), Str("Appeal Filed"), Str("Denied"),
                 Str("Resolved")}
    /\ ~(b.t = "string" /\ b.v \in ValidStatuses)

\* new Date().toISOString()
NowISO == Str("<now>")

\* normalizeDenial with the location fallback forgotten.
normalizeDenialNoLocationDefault(raw) ==
    [id |-> Or(Or(OptToString(raw.id), raw.denialId), Str("")),
     date |-> Or(raw.serviceDate, NowISO),
     location |-> raw.location,
     patientName |-> Or(raw.patientName, Str("Unknown Patient")),
     patientId |-> Or(OptToString(raw.id), Str("")),
     claimNumber |-> Or(raw.claimId, Str("")),
     insurancePayer |-> Or(raw.insurance, Str("Unknown Payer")),
     denialReason |-> Or(raw.denialReason, Str("Reason not specified")),
     claimAmount |-> Or(raw.amount, Num(0)),
     status |-> Str(NormalizedStatus(raw)),
     priority |-> Str("medium"),
     createdAt |-> Or(raw.denialDate, NowISO),
     updatedAt |-> Or(raw.denialDate, NowISO),
     rcaStatus |-> IF BackendStatus(raw) = Str("RCA Completed")
                   THEN Str("completed") ELSE Str("pending")]

\* The object literal normalizeDenial returns.
normalizeDenial(raw) ==
    [id |-> Or(Or(OptToString(raw.id), raw.denialId), Str("")),
     date |-> Or(raw.serviceDate, NowISO),
     location |-> Or(raw.location, Str("Unknown Location")),
     patientName |-> Or(raw.patientName, Str("Unknown Patient")),
     patientId |-> Or(OptToString(raw.id), Str("")),
     claimNumber |-> Or(raw.claimId, Str("")),
     insurancePayer |-> Or(raw.insurance, Str("Unknown Payer")),
     denialReason |-> Or(raw.denialReason, Str("Reason not specified")),
     claimAmount |-> Or(raw.amount, Num(0)),
     status |-> Str(NormalizedStatus(raw)),
     priority |-> Str("medium"),
     createdAt |-> Or(raw.denialDate, NowISO),
     updatedAt |-> Or(raw.denialDate, NowISO),
     rcaStatus |-> IF BackendStatus(raw) = Str("RCA Completed")
                   THEN Str("completed") ELSE Str("pending")]

RequiredFields ==
    {"id", "date", "location", "patientName", "patientId", "claimNumber",
     "insurancePayer", "denialReason", "claimAmount", "status", "priority",
     "createdAt", "updatedAt"}

----------------------------------------------------------------------------
(* Backend records the normalizer is applied to *)

MaxPad == 2

Pads == UNION {[1..n -> WhiteSpace] : n \in 0..MaxPad}

CoreStatuses ==
    {<<"New">>, <<"In", " ", "Review">>, <<"RCA", " ", "Completed">>,
     <<"Appeal", " ", "Generated">>, <<"Appeal", " ", "Filed">>,
     <<"Denied">>, <<"Resolved">>,
     <<>>, <<"new">>, <<"DENIED">>, <<"in", " ", "review">>,
     <<"rca", " ", "completed">>, <<"Pending">>, <<"Resolved", "!">>,
     <<"In", " ", " ", "Review">>, <<"In", "\t", "Review">>,
     <<"New", " ", "Denied">>}

StatusInputs ==
    {Undefined, JNull, Num(0), Num(3)}
        \cup {Str(l \o c \o r) : l \in Pads, c \in CoreStatuses, r \in Pads}

\* Statuses used where the other fields vary.
FewStatuses == {Undefined, Str(<<"RCA", " ", "Completed">>), Str(<<" ", "Bogus">>)}

BackendFields ==
    <<"id", "denialId", "serviceDate", "location", "patientName", "claimId",
      "insurance", "denialReason", "amount", "denialDate">>

FieldIndex(f) == CHOOSE i \in 1..Len(BackendFields) : BackendFields[i] = f

\* The value a field has when the backend supplies it.
Present(f) ==
    CASE f = "id" -> Num(17)
      [] f = "denialId" -> Str("D-17")
      [] f = "serviceDate" -> Str("2024-01-15")
      [] f = "location" -> Str("General Hospital")
      [] f = "patientName" -> Str("Jane Doe")
      [] f = "claimId" -> Str("CLM-1")
      [] f = "insurance" -> Str("Acme Health")
      [] f = "denialReason" -> Str("Denied - CO197 prior authorization required")
      [] f = "amount" -> Num(250)
      [] f = "denialDate" -> Str("2024-02-01")

\* The ways a field is absent: not there, null, or empty.  Pattern k < 3 uses
\* one way for every field, the other patterns mix them over the fields.
AbsentPatterns == 0..5

Absent(f, k) ==
    LET way == IF k < 3 THEN k ELSE (FieldIndex(f) + k) % 3 IN
    CASE way = 0 -> Undefined
      [] way = 1 -> JNull
      [] OTHER -> IF f = "amount" THEN Num(0) ELSE Str("")

RawWith(missing, k, status) ==
    [f \in {BackendFields[i] : i \in 1..Len(BackendFields)} \cup {"status"} |->
        IF f = "status" THEN status
        ELSE IF f \in missing THEN Absent(f, k)
        ELSE Present(f)]

AllBackendFields == {BackendFields[i] : i \in 1..Len(BackendFields)}

RawDenials ==
    {RawWith(m, k, s) : m \in SUBSET AllBackendFields, k \in AbsentPatterns,
                        s \in FewStatuses}
        \cup {RawWith(m, 0, s) : m \in {{}, AllBackendFields}, s \in StatusInputs}


----------------------------------------------------------------------------
(* Upload modal: files and validation (handleFileChange) *)

MiB == 1024 * 1024

\* String.prototype.toLowerCase on the pieces used here.
LowerPiece(p) ==
    CASE p = ".ZIP" -> ".zip"
      [] p = ".Zip" -> ".zip"
      [] p = "X" -> "x"
      [] p = ".TXT" -> ".txt"
      [] p = "Denied - " -> "denied - "
      [] p = "CO197" -> "co197"
      [] p = "Prior Authorization" -> "prior authorization"
      [] p = "Code " -> "code "
      [] p = "Insufficient documentation" -> "insufficient documentation"
      [] p = "Reason not specified" -> "reason not specified"
      [] p = "PRIOR AUTHORIZATION" -> "prior authorization"
      [] p = " REQUIRED" -> " required"
      [] p = "Co197" -> "co197"
      [] p = "CO-197" -> "co-197"
      [] p = "Authorization" -> "authorization"
      [] OTHER -> p

ToLowerCase(pieces) == [i \in 1..Len(pieces) |-> LowerPiece(pieces[i])]

\* String.prototype.endsWith for a suffix that is one piece.
EndsWith(pieces, suffix) == pieces # <<>> /\ pieces[Len(pieces)] = suffix

File(name, size) == [name |-> name, size |-> size]

\* What the user can offer through the input or by dropping.
CandidateFiles ==
    {File(<<"x", ".zip">>, 10 * MiB),
     File(<<"x", ".zip">>, 50 * MiB),
     File(<<"X", ".ZIP">>, 60 * MiB),
     File(<<"x", ".zip">>, 100 * MiB),
     File(<<"x", ".zip">>, 100 * MiB + 1),
     File(<<"x", ".Zip">>, 101 * MiB),
     File(<<"report", ".txt">>, 10 * MiB),
     File(<<"report", ".TXT">>, 101 * MiB),
     File(<<"zip">>, 10 * MiB),
     File(<<"x", ".zip", ".txt">>, 60 * MiB)}

MsgNotZip == "Please select a ZIP file"
MsgTooLarge == "File size must be less than 100MB"

\* The size check rejecting a file of exactly the limit.
FileRejectionStrict(f) ==
    IF ~EndsWith(ToLowerCase(f.name), ".zip") THEN MsgNotZip
    ELSE IF f.size >= 100 * MiB THEN MsgTooLarge
    ELSE NoText

\* The extension check without toLowerCase.
FileRejectionCaseSensitive(f) ==
    IF ~EndsWith(f.name, ".zip") THEN MsgNotZip
    ELSE IF f.size > 100 * MiB THEN MsgTooLarge
    ELSE NoText

\* The two validation returns of handleFileChange: the message set, or NoText
\* when the file passes.
FileRejection(f) ==
    IF ~EndsWith(ToLowerCase(f.name), ".zip") THEN MsgNotZip
    ELSE IF f.size > 100 * MiB THEN MsgTooLarge
    ELSE NoText

\* The advisory raised from 50 MiB on instead of above it.
LargeFileInclusive(f) == f.size >= 50 * MiB

\* setTimeoutWarning(selectedFile.size > 50 * 1024 * 1024)
LargeFile(f) == f.size > 50 * MiB

----------------------------------------------------------------------------
(* Upload transport (ApiService.uploadRequest) and error classification *)

UploadChunks == 3

\* Math.round((loaded / total) * 100), for 0 <= loaded <= total.
ProgressOf(loaded, total) == (200 * loaded + total) \div (2 * total)

HttpStatuses == {200, 204, 404, 413, 415, 500}

\* The ways an upload request ends: the load, error and timeout listeners.
UploadOutcomes ==
    {[type |-> "load", status |-> st] : st \in HttpStatuses}
        \cup {[type |-> "error"], [type |-> "timeout"]}

UploadOk(o) == o.type = "load" /\ o.status >= 200 /\ o.status < 300

\* The message of the Error uploadRequest rejects with, as pieces.
UploadErrorMessage(o) ==
    CASE o.type = "load" ->
            <<"Upload", " ", "failed:", " ", "HTTP", " ", ToString(o.status)>>
      [] o.type = "error" -> <<"Upload", " ", "network", " ", "error">>
      [] o.type = "timeout" -> <<"Upload", " ", "timeout">>

\* String.prototype.includes, for a needle made of whole pieces.
Includes(hay, needle) ==
    \E i \in 0..(Len(hay) - Len(needle)) :
        SubSeq(hay, i + 1, i + Len(needle)) = needle

MsgTimeout == "Upload timed out. The file may be too large or your connection is slow. Please try with a smaller file or check your internet connection."
MsgNetwork == "Network error occurred. Please check your internet connection and try again."
Msg415 == "Server doesn't support this file type. Please ensure your backend accepts ZIP files."
Msg413 == "File is too large for the server. Please try with a smaller file."
Msg500 == "Server error occurred while processing the file. Please try again later."

\* The if/else chain of handleUpload's catch: the text shown for an Error
\* with this message.
ClassifyUploadError(message) ==
    IF Includes(message, <<"timeout">>) THEN MsgTimeout
    ELSE IF Includes(message, <<"Network", " ", "error">>) THEN MsgNetwork
    ELSE IF Includes(message, <<"415">>) THEN Msg415
    ELSE IF Includes(message, <<"413">>) THEN Msg413
    ELSE IF Includes(message, <<"500">>) THEN Msg500
    ELSE Text(message)


----------------------------------------------------------------------------
(* Upload modal: state and handlers (UploadDenialModal) *)

MaxUploads == 2
CloseCap == 2

Min(a, b) == IF a < b THEN a ELSE b

\* One more onClose call counted for every upload whose timer is pending.
BumpCloses(timers) ==
    [i \in 1..Len(timers) |-> [closes |-> Min(timers[i].closes + 1, CloseCap)]]

\* handleClose without its isUploading guard.
handleCloseUnguarded(seenUploading, timers) ==
    /\ file' = null
    /\ uploadError' = NoText
    /\ success' = FALSE
    /\ uploadProgress' = 0
    /\ timeoutWarning' = FALSE
    /\ isOpen' = FALSE
    /\ closeTimers' = BumpCloses(timers)

\* handleClose, run by a closure that sees isUploading = seenUploading;
\* `timers` are the timers pending once the caller is done with its own.
handleClose(seenUploading, timers) ==
    IF ~seenUploading
    THEN /\ file' = null
         /\ uploadError' = NoText
         /\ success' = FALSE
         /\ uploadProgress' = 0
         /\ timeoutWarning' = FALSE
         /\ isOpen' = FALSE
         /\ closeTimers' = BumpCloses(timers)
    ELSE /\ UNCHANGED <<file, uploadError, success, uploadProgress,
                        timeoutWarning, isOpen>>
         /\ closeTimers' = timers

\* handleFileChange accepting every file.
handleFileChangeNoValidation(f) ==
    /\ file' = f
    /\ uploadError' = NoText
    /\ timeoutWarning' = LargeFile(f)

\* handleFileChange clearing the selection when it rejects a file.
handleFileChangeClearing(f) ==
    IF FileRejection(f) # NoText
    THEN /\ uploadError' = FileRejection(f)
         /\ file' = null
         /\ UNCHANGED timeoutWarning
    ELSE /\ file' = f
         /\ uploadError' = NoText
         /\ timeoutWarning' = LargeFile(f)

\* handleFileChange for a selected file f.
handleFileChange(f) ==
    IF FileRejection(f) # NoText
    THEN /\ uploadError' = FileRejection(f)
         /\ UNCHANGED <<file, timeoutWarning>>
    ELSE /\ file' = f
         /\ uploadError' = NoText
         /\ timeoutWarning' = LargeFile(f)

\* The Upload button enabled whenever a file is selected.
UploadEnabledWhileUploading == isOpen /\ ~success /\ file # null

\* The footer with the Upload button still rendered after a success.
UploadEnabledAfterSuccess == isOpen /\ file # null /\ ~isUploading

\* The Upload button disabled while an error is displayed.
UploadEnabledOnlyWithoutError ==
    isOpen /\ ~success /\ file # null /\ ~isUploading /\ uploadError = NoText

\* The "Upload & Process" button: rendered when !success, and
\* disabled={!file || isUploading}.
UploadEnabled == isOpen /\ ~success /\ file # null /\ ~isUploading

\* The isUploading a closure of handleUpload sees: that of the render the
\* click happened in, where the button was enabled.
StaleIsUploading == FALSE

\* "Add New Denial": setShowUploadModal(true)
OpenModal ==
    /\ screen = "upload"
    /\ UNCHANGED otherThanUpload
    /\ ~isOpen
    /\ isOpen' = TRUE
    /\ event' = [type |-> "open"]
    /\ UNCHANGED <<file, isUploading, uploadProgress, uploadError, success,
                   timeoutWarning, uploads, closeTimers, uploadsStarted,
                   onSuccessCalls, lastTimerCloses>>

\* onChange of the file input (disabled while uploading).
SelectFile(f) ==
    /\ screen = "upload"
    /\ UNCHANGED otherThanUpload
    /\ isOpen /\ ~success /\ ~isUploading
    /\ handleFileChange(f)
    /\ event' = [type |-> "select", file |-> f]
    /\ UNCHANGED <<isOpen, isUploading, uploadProgress, success, uploads,
                   closeTimers, uploadsStarted, onSuccessCalls, lastTimerCloses>>

\* handleDrop on the drop zone (rendered when !success).
DropFile(f) ==
    /\ screen = "upload"
    /\ UNCHANGED otherThanUpload
    /\ isOpen /\ ~success
    /\ handleFileChange(f)
    /\ event' = [type |-> "drop", file |-> f]
    /\ UNCHANGED <<isOpen, isUploading, uploadProgress, success, uploads,
                   closeTimers, uploadsStarted, onSuccessCalls, lastTimerCloses>>

\* The Remove button: setFile(null).
RemoveFile ==
    /\ screen = "upload"
    /\ UNCHANGED otherThanUpload
    /\ isOpen /\ ~success /\ file # null
    /\ file' = null
    /\ event' = [type |-> "remove"]
    /\ UNCHANGED <<isOpen, isUploading, uploadProgress, uploadError, success,
                   timeoutWarning, uploads, closeTimers, uploadsStarted,
                   onSuccessCalls, lastTimerCloses>>

\* The Cancel button (rendered when !success, disabled while uploading).
Cancel ==
    /\ screen = "upload"
    /\ UNCHANGED otherThanUpload
    /\ isOpen /\ ~success /\ ~isUploading
    /\ handleClose(isUploading, closeTimers)
    /\ event' = [type |-> "cancel"]
    /\ UNCHANGED <<isUploading, uploads, uploadsStarted, onSuccessCalls,
                   lastTimerCloses>>

\* Dismissing the dialog (Escape, overlay, X): onOpenChange={handleClose}.
Dismiss ==
    /\ screen = "upload"
    /\ UNCHANGED otherThanUpload
    /\ isOpen
    /\ handleClose(isUploading, closeTimers)
    /\ event' = [type |-> "dismiss"]
    /\ UNCHANGED <<isUploading, uploads, uploadsStarted, onSuccessCalls,
                   lastTimerCloses>>

\* handleUpload up to the await: the request is issued.
StartUpload ==
    /\ screen = "upload"
    /\ UNCHANGED otherThanUpload
    /\ UploadEnabled
    /\ uploadsStarted < MaxUploads
    /\ isUploading' = TRUE
    /\ uploadError' = NoText
    /\ uploadProgress' = 0
    /\ uploads' = Append(uploads, [file |-> file, loaded |-> 0])
    /\ uploadsStarted' = uploadsStarted + 1
    /\ event' = [type |-> "upload", file |-> file]
    /\ UNCHANGED <<isOpen, file, success, timeoutWarning, closeTimers,
                   onSuccessCalls, lastTimerCloses>>

Without(seq, i) == SubSeq(seq, 1, i - 1) \o SubSeq(seq, i + 1, Len(seq))

\* A progress event of request i: onProgress(progress).
UploadProgressEvent(i, n) ==
    /\ screen = "upload"
    /\ UNCHANGED otherThanUpload
    /\ i \in DOMAIN uploads
    /\ n \in uploads[i].loaded..UploadChunks
    /\ uploads' = [uploads EXCEPT ![i].loaded = n]
    /\ uploadProgress' = ProgressOf(n, UploadChunks)
    /\ event' = [type |-> "progress"]
    /\ UNCHANGED <<isOpen, file, isUploading, uploadError, success,
                   timeoutWarning, closeTimers, uploadsStarted, onSuccessCalls,
                   lastTimerCloses>>

\* Request i resolves: the rest of handleUpload's try, and its finally.
UploadResolves(i, o) ==
    /\ screen = "upload"
    /\ UNCHANGED otherThanUpload
    /\ i \in DOMAIN uploads
    /\ UploadOk(o)
    /\ uploads' = Without(uploads, i)
    /\ uploadProgress' = 100
    /\ success' = TRUE
    /\ closeTimers' = Append(closeTimers, [closes |-> 0])
    /\ isUploading' = FALSE
    /\ event' = [type |-> "resolved", outcome |-> o]
    /\ UNCHANGED <<isOpen, file, uploadError, timeoutWarning, uploadsStarted,
                   onSuccessCalls, lastTimerCloses>>

\* Request i rejects: handleUpload's catch, and its finally.
UploadRejects(i, o) ==
    /\ screen = "upload"
    /\ UNCHANGED otherThanUpload
    /\ i \in DOMAIN uploads
    /\ ~UploadOk(o)
    /\ uploads' = Without(uploads, i)
    /\ uploadError' = ClassifyUploadError(UploadErrorMessage(o))
    /\ isUploading' = FALSE
    /\ event' = [type |-> "rejected", outcome |-> o]
    /\ UNCHANGED <<isOpen, file, uploadProgress, success, timeoutWarning,
                   closeTimers, uploadsStarted, onSuccessCalls, lastTimerCloses>>

\* The oldest auto-close timer fires: handleClose(); onSuccess().
TimerFires ==
    /\ screen = "upload"
    /\ UNCHANGED otherThanUpload
    /\ closeTimers # <<>>
    /\ handleClose(StaleIsUploading, Tail(closeTimers))
    /\ lastTimerCloses' =
          IF isOpen' = FALSE /\ closeTimers' = BumpCloses(Tail(closeTimers))
          THEN Min(Head(closeTimers).closes + 1, CloseCap)
          ELSE Head(closeTimers).closes
    /\ onSuccessCalls' = onSuccessCalls + 1
    /\ event' = [type |-> "timer"]
    /\ UNCHANGED <<isUploading, uploads, uploadsStarted>>

NextUpload ==
    \/ OpenModal
    \/ \E f \in CandidateFiles : SelectFile(f)
    \/ \E f \in CandidateFiles : DropFile(f)
    \/ RemoveFile
    \/ Cancel
    \/ Dismiss
    \/ StartUpload
    \/ \E i \in DOMAIN uploads, n \in 0..UploadChunks : UploadProgressEvent(i, n)
    \/ \E i \in DOMAIN uploads, o \in UploadOutcomes : UploadResolves(i, o)
    \/ \E i \in DOMAIN uploads, o \in UploadOutcomes : UploadRejects(i, o)
    \/ TimerFires

InitUploadVars ==
    /\ isOpen = FALSE
    /\ file = null
    /\ isUploading = FALSE
    /\ uploadProgress = 0
    /\ uploadError = NoText
    /\ success = FALSE
    /\ timeoutWarning = FALSE
    /\ uploads = <<>>
    /\ closeTimers = <<>>
    /\ uploadsStarted = 0
    /\ onSuccessCalls = 0
    /\ lastTimerCloses = 0

----------------------------------------------------------------------------
(* Request Gateway (ApiService.request) and the calls built on it *)

\* A string kept as pieces, so that includes() can be modelled.
PStr(pieces) == [t |-> "pstring", v |-> pieces]

\* A JSON object, its members a record.
Obj(members) == [t |-> "object", v |-> members]

NotJson == [t |-> "notjson"]

\* JavaScript truthiness of a value a JSON body can hold.
TruthyJson(x) ==
    CASE x.t = "pstring" -> Text(x.v) # ""
      [] x.t = "object" -> TRUE
      [] OTHER -> Truthy(x)

\* x.name for a value that is neither null nor undefined.
Get(x, name) ==
    IF x.t = "object" /\ name \in DOMAIN x.v THEN x.v[name] ELSE Undefined

\* x?.name
OptGet(x, name) == IF IsNullish(x) THEN Undefined ELSE Get(x, name)

Error(message) == [name |-> "Error", message |-> message]
TypeError(message) == [name |-> "TypeError", message |-> message]
SyntaxError(message) == [name |-> "SyntaxError", message |-> message]

Return(v) == [ok |-> TRUE, value |-> v]
Throw(e) == [ok |-> FALSE, error |-> e]

\* What the network does with one fetch: it rejects, or a response arrives.
FetchRejects(e) == [type |-> "reject", error |-> e]
Response(status, statusText, contentType, json, text) ==
    [type |-> "response", status |-> status, statusText |-> statusText,
     contentType |-> contentType, json |-> json, text |-> text]

ResponseOk(o) == o.status >= 200 /\ o.status <= 299

NetworkErrorMessage ==
    <<"Network", " ", "Error", ":", " ", "Unable to connect to backend API">>

\* The message built without looking at the body.
HttpErrorMessageStatusOnly(o) == <<"HTTP ", ToString(o.status), ": ", o.statusText>>

\* The error message request() builds for a non-2xx response.
HttpErrorMessage(o) ==
    LET fallback == <<"HTTP ", ToString(o.status), ": ", o.statusText>> IN
    IF o.json = NotJson \/ IsNullish(o.json) THEN fallback
    ELSE IF TruthyJson(Get(o.json, "message")) THEN Get(o.json, "message").v
    ELSE fallback

\* ApiService.request: what the call returns or throws for a network outcome.
request(o) ==
    IF o.type = "reject"
    THEN IF o.error.name = "TypeError" /\ Includes(o.error.message, <<"Failed to fetch">>)
         THEN Throw(Error(NetworkErrorMessage))
         ELSE Throw(o.error)
    ELSE IF ~ResponseOk(o) THEN Throw(Error(HttpErrorMessage(o)))
    ELSE IF o.contentType = "application/json"
         THEN IF o.json = NotJson
              THEN Throw(SyntaxError(<<"Unexpected token">>))
              ELSE Return(o.json)
    ELSE IF o.status = 204 THEN Return(Obj(<<>>))
    ELSE Return(PStr(<<o.text>>))

RcaNotFoundMessage == <<"RCA result not found in response">>

\* triggerRCA returning the envelope instead of its rcaResult.
triggerRCANotUnwrapped(o) ==
    LET r == request(o) IN
    IF ~r.ok THEN r
    ELSE IF IsNullish(r.value)
         THEN Throw(TypeError(<<"Cannot read properties of null">>))
    ELSE IF TruthyJson(Get(r.value, "rcaResult")) THEN Return(r.value)
    ELSE Throw(Error(RcaNotFoundMessage))

\* ApiService.triggerRCA for a network outcome of POST /Denials/{id}/rca.
triggerRCA(o) ==
    LET r == request(o) IN
    IF ~r.ok THEN r
    ELSE IF IsNullish(r.value)
         THEN Throw(TypeError(<<"Cannot read properties of null">>))
    ELSE IF TruthyJson(Get(r.value, "rcaResult")) THEN Return(Get(r.value, "rcaResult"))
    ELSE Throw(Error(RcaNotFoundMessage))

\* ApiService.generateAppeal for a network outcome of POST /Denials/{id}/appeal.
generateAppeal(o) == request(o)

----------------------------------------------------------------------------
(* Detail records: normalizeDenialDetail and getDenialById *)

\* a || b for values a JSON body can hold.
OrJson(a, b) == IF TruthyJson(a) THEN a ELSE b

\* JSON.stringify(x): undefined for undefined, else the text of x.
JSONStringify(x) == IF x = Undefined THEN Undefined ELSE [t |-> "json", of |-> x]

RootCauseCompleted ==
    Str("Root cause analysis completed. Issues identified from extracted documentation data.")

\* normalizeDenialDetail taking the analysis of every record that has one,
\* whatever its status.
normalizeDenialDetailAnyStatus(raw) ==
    LET appeal == IF TruthyJson(raw.appealResult) THEN raw.appealResult ELSE Undefined
        completed == BackendStatus(raw) = Str("RCA Completed")
        analysis == OptGet(raw.rcaResult, "analysis")
        rootCause == IF TruthyJson(analysis) THEN analysis
                     ELSE IF completed THEN RootCauseCompleted
                     ELSE Undefined
    IN  normalizeDenial(raw) @@
        [rootCause |-> rootCause,
         appealLetter |-> OrJson(OptGet(appeal, "emailDraft"), Undefined),
         appealResult |-> appeal,
         rcaResult |-> raw.rcaResult]

\* normalizeDenialDetail, for the fields the detail view works with (the
\* pass-through fields summary .. resolutionDate, ediDetails and documents
\* are left out).
normalizeDenialDetail(raw) ==
    LET appeal == IF TruthyJson(raw.appealResult) THEN raw.appealResult ELSE Undefined
        completed == BackendStatus(raw) = Str("RCA Completed")
        analysis == OptGet(raw.rcaResult, "analysis")
        rootCause == IF completed /\ TruthyJson(analysis) THEN analysis
                     ELSE IF completed THEN RootCauseCompleted
                     ELSE Undefined
    IN  normalizeDenial(raw) @@
        [rootCause |-> rootCause,
         appealLetter |-> OrJson(OptGet(appeal, "emailDraft"), Undefined),
         appealResult |-> appeal,
         rcaResult |-> raw.rcaResult]

DetailFields == AllBackendFields \cup {"status", "rcaResult", "appealResult"}

\* What reading the fields of a body that is no object gives: undefined.
NoFields == [f \in DetailFields |-> Undefined]

\* The members of a JSON body, as normalizeDenial reads them.
AsRaw(v) == IF v.t = "object" THEN v.v ELSE NoFields

\* ApiService.getDenialById for a network outcome of GET /Denials/{id}.
getDenialById(o) ==
    LET r == request(o) IN
    IF ~r.ok THEN r
    ELSE IF IsNullish(r.value)
         THEN Throw(TypeError(<<"Cannot read properties of null">>))
    ELSE Return(normalizeDenialDetail(AsRaw(r.value)))

\* ApiService.getDenials for a network outcome of GET /Denials.
getDenials(o) ==
    LET r == request(o) IN
    IF ~r.ok THEN r
    ELSE IF IsNullish(r.value)
         THEN Throw(TypeError(<<"Cannot read properties of null">>))
    ELSE IF r.value.t # "array"
         THEN Throw(TypeError(<<"rawData.map is not a function">>))
    ELSE Return([i \in 1..Len(r.value.v) |-> normalizeDenial(r.value.v[i])])

----------------------------------------------------------------------------
(* What the backend answers *)

Arr(elements) == [t |-> "array", v |-> elements]

StoredRca ==
    Obj([analysis |-> Str("Authorization was on file"),
         recommendations |-> Str("Resubmit with the authorization number"),
         status |-> Str("Completed"), jobId |-> Num(7),
         analysisCompletedAt |-> Str("2024-02-02")])

FreshRca ==
    Obj([analysis |-> Str("Claim filed after the timely filing limit"),
         recommendations |-> Str("Document the original submission date"),
         denialSource |-> Obj([code |-> Str("CO29")]),
         status |-> Str("Completed"), jobId |-> Num(8),
         analysisCompletedAt |-> Str("2024-03-01")])

RcaWithoutAnalysis == Obj([status |-> Str("Completed"), jobId |-> Num(9)])

StoredAppeal ==
    Obj([appealStatus |-> Str("Generated"), emailDraft |-> Str("Stored letter"),
         supportDocumentLinks |-> Arr(<<Str("https://files/eob.pdf")>>),
         missingInformation |-> Arr(<<Str("Operative report")>>),
         jobId |-> Num(3)])

FreshAppeal ==
    Obj([appealStatus |-> Str("Generated"), emailDraft |-> Str("Fresh letter"),
         jobId |-> Num(4)])

\* A detail record of the backend: every field of the wire format, absent
\* ones undefined.
Detail(missing, k, status, reason, rca, appeal) ==
    [f \in DetailFields |->
        CASE f = "rcaResult" -> rca
          [] f = "appealResult" -> appeal
          [] f = "denialReason" -> reason
          [] OTHER -> RawWith(missing, k, status)[f]]

BackendDetails ==
    {Detail({}, 0, Str(<<"New">>), Present("denialReason"), Undefined, Undefined),
     Detail({"location"}, 1, Str(<<" ", "RCA", " ", "Completed">>),
            Str("Insufficient documentation"), RcaWithoutAnalysis, JNull),
     Detail({}, 0, Str(<<"Appeal", " ", "Generated">>), Str("Code co197"),
            StoredRca, StoredAppeal),
     Detail(AllBackendFields, 2, Str(<<"Escalated">>), Undefined, JNull, Undefined)}

Json200(body) == Response(200, "OK", "application/json", body, "")

FailedToFetch == FetchRejects(TypeError(<<"Failed to fetch">>))

NotFound ==
    Response(404, "Not Found", "application/json",
             Obj([message |-> PStr(<<"Denial", " ", "not", " ", "found">>)]), "")

GatewayTimeout ==
    Response(504, "Gateway Timeout", "application/json",
             Obj([message |-> PStr(<<"Gateway", " ", "timeout">>)]), "")

ServerError == Response(500, "Internal Server Error", "text/plain", NotJson, "boom")

NoContent == Response(204, "No Content", "", NotJson, "")

LoadOutcomes ==
    {Json200(Obj(d)) : d \in BackendDetails}
        \cup {Response(200, "OK", "text/html", NotJson, "<html>"),
              FailedToFetch, NotFound}

RcaOutcomes ==
    {Json200(Obj([id |-> Num(17), rcaResult |-> FreshRca])),
     Json200(Obj([id |-> Num(17), rcaResult |-> RcaWithoutAnalysis])),
     Json200(Obj([id |-> Num(17), rcaResult |-> JNull])),
     Json200(Obj([id |-> Num(17), analysis |-> Str("Not in an envelope")])),
     Json200(JNull),
     NoContent,
     FailedToFetch, GatewayTimeout, ServerError}

AppealOutcomes == {Json200(FreshAppeal), NoContent, FailedToFetch, ServerError}

ListOutcomes ==
    {Json200(Arr(<<>>)),
     Json200(Arr(<<RawWith({}, 0, Str(<<"New">>))>>)),
     Json200(Arr(<<RawWith({"location"}, 1, Str(<<"Denied", " ">>)),
                   RawWith({}, 0, Str(<<"Escalated">>))>>)),
     Json200(Arr(<<RawWith({}, 0, Str(<<"Appeal", " ", "Generated">>)),
                   RawWith(AllBackendFields, 0, Undefined),
                   RawWith({}, 0, Str(<<"Resolved">>))>>)),
     Json200(Obj([items |-> Arr(<<>>)])),
     FailedToFetch, NotFound, ServerError}

----------------------------------------------------------------------------
(* Denial detail view: state and handlers (DenialDetailPage) *)

MaxRequests == 4

\* The structure of the denial reasons used here, for includes().
Pieces(s) ==
    CASE s = "Denied - CO197 prior authorization required" ->
            <<"Denied - ", "CO197", " ", "prior authorization", " required">>
      [] s = "Prior Authorization missing" -> <<"Prior Authorization", " missing">>
      [] s = "Code co197" -> <<"Code ", "co197">>
      [] s = "PRIOR AUTHORIZATION REQUIRED" -> <<"PRIOR AUTHORIZATION", " REQUIRED">>
      [] s = "CO-197 not covered" -> <<"CO-197", " not covered">>
      [] s = "Authorization prior to service missing" ->
            <<"Authorization", " ", "prior", " to service missing">>
      [] OTHER -> <<s>>

\* The issues of the two offline analyses (category and severity; the
\* description and recommendation texts are fixed per category).
PriorAuthorizationIssues ==
    <<[category |-> "Prior Authorization", severity |-> "High"],
      [category |-> "Emergency Services Regulation", severity |-> "High"],
      [category |-> "Documentation", severity |-> "Medium"]>>

DefaultIssues ==
    <<[category |-> "Documentation", severity |-> "High"],
      [category |-> "Coding Review", severity |-> "Medium"],
      [category |-> "Policy Compliance", severity |-> "Medium"]>>

\* generateContextualRCA without the toLowerCase().
generateContextualRCACaseSensitive(denialData) ==
    LET denialReason == Pieces(Or(denialData.denialReason, Str("")).v) IN
    IF \/ Includes(denialReason, <<"prior authorization">>)
       \/ Includes(denialReason, <<"co197">>)
    THEN [source |-> "offline", issues |-> PriorAuthorizationIssues]
    ELSE [source |-> "offline", issues |-> DefaultIssues]

\* generateContextualRCA tagging its result as the backend's.
generateContextualRCATaggedApi(denialData) ==
    LET denialReason == ToLowerCase(Pieces(Or(denialData.denialReason, Str("")).v)) IN
    IF \/ Includes(denialReason, <<"prior authorization">>)
       \/ Includes(denialReason, <<"co197">>)
    THEN [source |-> "api", issues |-> PriorAuthorizationIssues]
    ELSE [source |-> "api", issues |-> DefaultIssues]

generateContextualRCA(denialData) ==
    LET denialReason == ToLowerCase(Pieces(Or(denialData.denialReason, Str("")).v)) IN
    IF \/ Includes(denialReason, <<"prior authorization">>)
       \/ Includes(denialReason, <<"co197">>)
    THEN [source |-> "offline", issues |-> PriorAuthorizationIssues]
    ELSE [source |-> "offline", issues |-> DefaultIssues]

\* The RCAResult loadDenialDetail builds from the stored rcaResult.
existingRcaResult(r) ==
    [source |-> "api", issues |-> <<>>,
     apiResponse |->
        [analysis |-> Get(r, "analysis"),
         recommendations |-> Get(r, "recommendations"),
         ediFileAnalysis |-> Get(r, "ediFileAnalysis"),
         contentAnalysis |-> Get(r, "contentAnalysis"),
         denialSource |-> JSONStringify(Get(r, "denialSource")),
         status |-> Get(r, "status"),
         jobId |-> Get(r, "jobId"),
         completedAt |-> Get(r, "analysisCompletedAt")]]

\* The RCAResult handleAnalyze builds from what triggerRCA returned.
apiResult(response) ==
    [source |-> "api", issues |-> <<>>,
     apiResponse |->
        [analysis |-> Get(response, "analysis"),
         recommendations |-> Get(response, "recommendations"),
         ediFileAnalysis |-> Get(response, "ediFileAnalysis"),
         contentAnalysis |-> Get(response, "contentAnalysis"),
         denialSource |-> JSONStringify(Get(response, "denialSource")),
         status |-> Get(response, "status"),
         jobId |-> Get(response, "jobId"),
         completedAt |-> Get(response, "analysisCompletedAt")]]

RootCauseFromApi == Str("Analysis completed: Issues identified from backend RCA service.")
RootCauseOffline ==
    Str("Analysis completed (offline mode): Prior authorization denial for emergency services identified as primary issue.")

StatusConnecting == "Connecting to RCA analysis service..."
StatusFromApi == "Analysis complete - results from backend RCA service"
StatusOfflineTimeout == "Analysis complete - using offline intelligence due to timeout"
StatusOfflineNetwork == "Analysis complete - using offline intelligence (network unavailable)"
StatusOffline == "Analysis complete - using offline intelligence"

\* The if/else chain at the end of handleAnalyze's catch.
OfflineStatus(message) ==
    IF Includes(message, <<"timeout">>) THEN StatusOfflineTimeout
    ELSE IF Includes(message, <<"Network", " ", "Error">>) THEN StatusOfflineNetwork
    ELSE StatusOffline

\* new Date(x).toLocaleDateString() and x.toLocaleString(): the text the
\* locale gives for the value.
ToLocaleDateString(x) == [t |-> "localeDate", of |-> x]
ToLocaleString(x) == [t |-> "localeNumber", of |-> x]

\* The letter of the fallback appeal: the template filled from the denial.
FallbackLetter(d) ==
    [t |-> "letter", claimNumber |-> d.claimNumber, patientName |-> d.patientName,
     serviceDate |-> ToLocaleDateString(d.date),
     claimAmount |-> ToLocaleString(d.claimAmount),
     denialReason |-> d.denialReason, location |-> d.location]

\* The fallback appeal with the facility left out of the letter.
fallbackAppealNoLocation(d) ==
    Obj([appealStatus |-> Str("Generated Offline"),
         emailDraft |-> [FallbackLetter(d) EXCEPT !.location = Str("")],
         supportDocumentLinks |-> Arr(<<>>),
         missingInformation |-> Arr(<<>>),
         generatedAt |-> NowISO,
         jobId |-> Num(0)])

fallbackAppeal(d) ==
    Obj([appealStatus |-> Str("Generated Offline"),
         emailDraft |-> FallbackLetter(d),
         supportDocumentLinks |-> Arr(<<>>),
         missingInformation |-> Arr(<<>>),
         generatedAt |-> NowISO,
         jobId |-> Num(0)])

\* The page shows the denial (neither the loading nor an error screen).
DetailShown == ~isLoading /\ error = NoText /\ denial # null

\* The Analyze / Re-analyze button is there and enabled.
AnalyzeEnabledAlways == DetailShown

AnalyzeEnabled == DetailShown /\ ~isAnalyzing

\* A Generate / Regenerate Appeal button is there and enabled.
AppealEnabledAlways == DetailShown /\ rcaResult # null

\* The appeal buttons offered without an RCA result.
AppealEnabledWithoutRca == DetailShown /\ ~isPreparingAppeal

AppealEnabled == DetailShown /\ rcaResult # null /\ ~isPreparingAppeal

InitDetailVars ==
    /\ denial = null
    /\ isLoading = TRUE
    /\ error = NoText
    /\ isAnalyzing = FALSE
    /\ rcaResult = null
    /\ isPreparingAppeal = FALSE
    /\ appealResult = null
    /\ analysisStatus = NoText
    /\ loadRequests = 1
    /\ rcaRequests = <<>>
    /\ appealRequests = <<>>
    /\ statusTimers = 0
    /\ requestsStarted = 1

\* Try Again (error screen) or Refresh (header): loadDenialDetail up to its await.
LoadDenialDetail ==
    /\ screen = "detail"
    /\ ~isLoading
    /\ error # NoText \/ denial # null
    /\ requestsStarted < MaxRequests
    /\ isLoading' = TRUE
    /\ error' = NoText
    /\ loadRequests' = loadRequests + 1
    /\ requestsStarted' = requestsStarted + 1
    /\ event' = [type |-> "load"]
    /\ UNCHANGED <<denial, isAnalyzing, rcaResult, isPreparingAppeal,
                   appealResult, analysisStatus, rcaRequests, appealRequests,
                   statusTimers>>
    /\ UNCHANGED otherThanDetail

\* getDenialById settles: the rest of loadDenialDetail.
LoadSettles(o) ==
    /\ screen = "detail"
    /\ loadRequests > 0
    /\ LET r == getDenialById(o) IN
       IF r.ok
       THEN /\ denial' = r.value
            /\ appealResult' = IF TruthyJson(r.value.appealResult)
                               THEN r.value.appealResult ELSE appealResult
            /\ rcaResult' = IF TruthyJson(r.value.rcaResult)
                            THEN existingRcaResult(r.value.rcaResult) ELSE rcaResult
            /\ UNCHANGED error
       ELSE /\ error' = Text(r.error.message)
            /\ denial' = null
            /\ UNCHANGED <<appealResult, rcaResult>>
    /\ isLoading' = FALSE
    /\ loadRequests' = loadRequests - 1
    /\ event' = [type |-> "loaded"]
    /\ UNCHANGED <<isAnalyzing, isPreparingAppeal, analysisStatus, rcaRequests,
                   appealRequests, statusTimers, requestsStarted>>
    /\ UNCHANGED otherThanDetail

\* Click on Analyze / Re-analyze: handleAnalyze up to its await.
HandleAnalyze ==
    /\ screen = "detail"
    /\ AnalyzeEnabled
    /\ requestsStarted < MaxRequests
    /\ isAnalyzing' = TRUE
    /\ analysisStatus' = StatusConnecting
    /\ rcaRequests' = Append(rcaRequests, [denial |-> denial])
    /\ requestsStarted' = requestsStarted + 1
    /\ event' = [type |-> "analyze"]
    /\ UNCHANGED <<denial, isLoading, error, rcaResult, isPreparingAppeal,
                   appealResult, loadRequests, appealRequests, statusTimers>>
    /\ UNCHANGED otherThanDetail

\* triggerRCA settles for request i: the try's rest, the catch and the
\* finally of handleAnalyze.  `clicked` is the denial of the render in which
\* the button was clicked.
RcaSettles(i, o) ==
    /\ screen = "detail"
    /\ i \in 1..Len(rcaRequests)
    /\ LET r == triggerRCA(o)
           clicked == rcaRequests[i].denial
       IN
       IF r.ok
       THEN /\ rcaResult' = apiResult(r.value)
            /\ denial' = IF denial # null
                         THEN [denial EXCEPT
                                 !.rootCause = OrJson(Get(r.value, "analysis"),
                                                      RootCauseFromApi),
                                 !.rcaStatus = Str("completed")]
                         ELSE null
            /\ analysisStatus' = StatusFromApi
       ELSE /\ rcaResult' = generateContextualRCA(clicked)
            /\ denial' = IF denial # null
                         THEN [denial EXCEPT !.rootCause = RootCauseOffline,
                                             !.rcaStatus = Str("completed")]
                         ELSE null
            /\ analysisStatus' = OfflineStatus(r.error.message)
    /\ isAnalyzing' = FALSE
    /\ statusTimers' = statusTimers + 1
    /\ rcaRequests' = Without(rcaRequests, i)
    /\ event' = [type |-> "rcaSettled", outcome |-> o]
    /\ UNCHANGED <<isLoading, error, isPreparingAppeal, appealResult,
                   loadRequests, appealRequests, requestsStarted>>
    /\ UNCHANGED otherThanDetail

\* A 3 s timer of handleAnalyze's finally fires.
StatusTimerFires ==
    /\ screen = "detail"
    /\ statusTimers > 0
    /\ analysisStatus' = NoText
    /\ statusTimers' = statusTimers - 1
    /\ event' = [type |-> "statusTimer"]
    /\ UNCHANGED <<denial, isLoading, error, isAnalyzing, rcaResult,
                   isPreparingAppeal, appealResult, loadRequests, rcaRequests,
                   appealRequests, requestsStarted>>
    /\ UNCHANGED otherThanDetail

\* Click on Generate Appeal / Regenerate: handlePrepareAppeal up to its await.
HandlePrepareAppeal ==
    /\ screen = "detail"
    /\ AppealEnabled
    /\ requestsStarted < MaxRequests
    /\ isPreparingAppeal' = TRUE
    /\ appealRequests' = Append(appealRequests, [denial |-> denial])
    /\ requestsStarted' = requestsStarted + 1
    /\ event' = [type |-> "prepareAppeal"]
    /\ UNCHANGED <<denial, isLoading, error, isAnalyzing, rcaResult,
                   appealResult, analysisStatus, loadRequests, rcaRequests,
                   statusTimers>>
    /\ UNCHANGED otherThanDetail

\* generateAppeal settles for request i: the rest of handlePrepareAppeal.
AppealSettles(i, o) ==
    /\ screen = "detail"
    /\ i \in 1..Len(appealRequests)
    /\ LET r == generateAppeal(o)
           clicked == appealRequests[i].denial
       IN
       IF r.ok
       THEN /\ appealResult' = r.value
            /\ denial' = IF denial # null
                         THEN [denial EXCEPT
                                 !.appealLetter = Get(r.value, "emailDraft"),
                                 !.status = Str("Appeal Filed"),
                                 !.appealResult = r.value]
                         ELSE null
       ELSE /\ appealResult' = fallbackAppeal(clicked)
            /\ UNCHANGED denial
    /\ isPreparingAppeal' = FALSE
    /\ appealRequests' = Without(appealRequests, i)
    /\ event' = [type |-> "appealSettled", outcome |-> o]
    /\ UNCHANGED <<isLoading, error, isAnalyzing, rcaResult, analysisStatus,
                   loadRequests, rcaRequests, statusTimers, requestsStarted>>
    /\ UNCHANGED otherThanDetail

\* Click on "Generate New Appeal" (shown with a result the record carries).
GenerateNewAppeal ==
    /\ screen = "detail"
    /\ DetailShown
    /\ rcaResult # null
    /\ appealResult # null
    /\ TruthyJson(appealResult)
    /\ TruthyJson(denial.appealResult)
    /\ appealResult' = null
    /\ event' = [type |-> "newAppeal"]
    /\ UNCHANGED <<denial, isLoading, error, isAnalyzing, rcaResult,
                   isPreparingAppeal, analysisStatus, loadRequests,
                   rcaRequests, appealRequests, statusTimers, requestsStarted>>
    /\ UNCHANGED otherThanDetail

NextDetail ==
    \/ LoadDenialDetail
    \/ \E o \in LoadOutcomes : LoadSettles(o)
    \/ HandleAnalyze
    \/ \E i \in 1..Len(rcaRequests), o \in RcaOutcomes : RcaSettles(i, o)
    \/ StatusTimerFires
    \/ HandlePrepareAppeal
    \/ \E i \in 1..Len(appealRequests), o \in AppealOutcomes : AppealSettles(i, o)
    \/ GenerateNewAppeal

----------------------------------------------------------------------------
(* Dashboard list: state and handlers (DashboardPage) *)

MaxFetches == 3

InitListVars ==
    /\ denials = <<>>
    /\ listLoading = TRUE
    /\ listError = NoText
    /\ listRequests = <<1>>
    /\ fetchesStarted = 1

\* loadDenials up to its await.
loadDenialsStarts ==
    /\ fetchesStarted < MaxFetches
    /\ listLoading' = TRUE
    /\ listError' = NoText
    /\ listRequests' = Append(listRequests, fetchesStarted + 1)
    /\ fetchesStarted' = fetchesStarted + 1
    /\ UNCHANGED denials
    /\ UNCHANGED otherThanList

\* Click on Refresh (disabled while isLoading).
RefreshDenials ==
    /\ screen = "dashboard"
    /\ ~listLoading
    /\ loadDenialsStarts
    /\ event' = [type |-> "refresh"]

\* Click on Try Again (shown while there is an error).
TryAgain ==
    /\ screen = "dashboard"
    /\ listError # NoText
    /\ loadDenialsStarts
    /\ event' = [type |-> "tryAgain"]

\* The upload modal calls onSuccess, which is refreshDenials.
UploadSucceeded ==
    /\ screen = "dashboard"
    /\ loadDenialsStarts
    /\ event' = [type |-> "onSuccess"]

\* getDenials settles for request i: the rest of loadDenials.
FetchSettles(i, o) ==
    /\ screen = "dashboard"
    /\ i \in 1..Len(listRequests)
    /\ LET r == getDenials(o) IN
       IF r.ok
       THEN /\ denials' = r.value
            /\ UNCHANGED listError
       ELSE /\ listError' = Text(r.error.message)
            /\ denials' = <<>>
    /\ listLoading' = FALSE
    /\ listRequests' = Without(listRequests, i)
    /\ event' = [type |-> "fetched", request |-> listRequests[i], outcome |-> o]
    /\ UNCHANGED fetchesStarted
    /\ UNCHANGED otherThanList

NextList ==
    \/ RefreshDenials
    \/ TryAgain
    \/ UploadSucceeded
    \/ \E i \in 1..Len(listRequests), o \in ListOutcomes : FetchSettles(i, o)

----------------------------------------------------------------------------
(* Single calls: generateContextualRCA and ApiService.request on their own *)

\* The denial reasons a call of generateContextualRCA is given.
ReasonValues ==
    {Undefined, JNull, Str(""),
     Str("Denied - CO197 prior authorization required"),
     Str("Prior Authorization missing"),
     Str("PRIOR AUTHORIZATION REQUIRED"),
     Str("Code co197"),
     Str("Co197"),
     Str("CO-197 not covered"),
     Str("Authorization prior to service missing"),
     Str("insufficient documentation"),
     Str("Insufficient documentation"),
     Str("Reason not specified")}

\* The details the view can hold, each with each of the reasons.
DenialArguments ==
    {[normalizeDenialDetail(d) EXCEPT !.denialReason = r] :
        d \in BackendDetails, r \in ReasonValues}

ErrorStatuses == {400, 404, 413, 500, 503}

StatusText(status) ==
    CASE status = 400 -> "Bad Request"
      [] status = 404 -> "Not Found"
      [] status = 413 -> "Payload Too Large"
      [] status = 500 -> "Internal Server Error"
      [] status = 503 -> ""
      [] status = 200 -> "OK"
      [] status = 201 -> "Created"
      [] status = 204 -> "No Content"

\* The bodies a response can carry, as response.json() gives them.
ErrorBodies ==
    {NotJson, JNull, Obj(<<>>), Arr(<<>>),
     PStr(<<"Denial", " ", "not", " ", "found">>),
     Obj([message |-> PStr(<<"Denial", " ", "not", " ", "found">>)]),
     Obj([message |-> PStr(<<"Failed to fetch">>)]),
     Obj([message |-> PStr(<<>>)]),
     Obj([message |-> JNull]),
     Obj([error |-> PStr(<<"Denial", " ", "not", " ", "found">>)])}

ContentTypes == {"application/json", "text/plain", ""}

\* What fetch rejects with when the transport fails: the message is the
\* browser's (Chromium, WebKit, Gecko, Node).
TransportFailures ==
    {FetchRejects(TypeError(<<"Failed to fetch">>)),
     FetchRejects(TypeError(<<"Load failed">>)),
     FetchRejects(TypeError(<<"NetworkError", " when attempting to fetch resource.">>)),
     FetchRejects(TypeError(<<"fetch failed">>))}

RequestArguments ==
    {Response(st, StatusText(st), ct, b, "") :
        st \in ErrorStatuses, ct \in ContentTypes, b \in ErrorBodies}
        \cup {Response(st, StatusText(st), ct, b, "done") :
                st \in {200, 201, 204}, ct \in ContentTypes,
                b \in {NotJson, JNull, Obj([id |-> Num(17)])}}
        \cup TransportFailures

\* Statuses a detail record can arrive with: missing, null, a number, and
\* texts around "RCA Completed" with and without surrounding white space.
DetailStatuses ==
    {Undefined, JNull, Num(0)}
        \cup {Str(l \o c \o r) :
                l \in {<<>>, <<" ">>, <<"\t", " ">>},
                r \in {<<>>, <<" ">>, <<" ", "\t">>},
                c \in {<<"RCA", " ", "Completed">>, <<"rca", " ", "completed">>,
                       <<"RCA", " ", " ", "Completed">>,
                       <<"RCA", " ", "Completed", "!">>, <<"New">>,
                       <<"Appeal", " ", "Generated">>, <<>>}}

\* The rcaResult member of a detail record: missing, null, with an analysis,
\* without one, with an empty or a null one.
RcaValues ==
    {Undefined, JNull, StoredRca, RcaWithoutAnalysis,
     Obj([analysis |-> Str("")]), Obj([analysis |-> JNull])}

DetailArguments ==
    {Detail({}, 0, st, Present("denialReason"), rca, Undefined) :
        st \in DetailStatuses, rca \in RcaValues}

Calls ==
    {[fn |-> "generateContextualRCA", arg |-> d] : d \in DenialArguments}
        \cup {[fn |-> "request", arg |-> o] : o \in RequestArguments}
        \cup {[fn |-> "normalizeDenialDetail", arg |-> raw] : raw \in DetailArguments}

InitCallVars ==
    /\ call = null
    /\ result = null

\* generateContextualRCA(denialData) returns.
CallGenerateContextualRCA ==
    /\ screen = "calls"
    /\ call.fn = "generateContextualRCA"
    /\ result = null
    /\ result' = generateContextualRCA(call.arg)
    /\ event' = [type |-> "returned"]
    /\ UNCHANGED call
    /\ UNCHANGED otherThanCalls

\* request(endpoint) settles for the network outcome given.
CallRequest ==
    /\ screen = "calls"
    /\ call.fn = "request"
    /\ result = null
    /\ result' = request(call.arg)
    /\ event' = [type |-> "settled"]
    /\ UNCHANGED call
    /\ UNCHANGED otherThanCalls

\* normalizeDenialDetail(rawDenial) returns.
CallNormalizeDenialDetail ==
    /\ screen = "calls"
    /\ call.fn = "normalizeDenialDetail"
    /\ result = null
    /\ result' = Return(normalizeDenialDetail(call.arg))
    /\ event' = [type |-> "returned"]
    /\ UNCHANGED call
    /\ UNCHANGED otherThanCalls

NextCalls == CallGenerateContextualRCA \/ CallRequest \/ CallNormalizeDenialDetail

----------------------------------------------------------------------------
(* Backend-health badge: state and handlers (ApiStatus) *)

MaxChecks == 3

\* The component after its mount effect: the first check is in flight and
\* the interval is set.
InitStatusVars ==
    /\ mounted = TRUE
    /\ badgeStatus = "checking"
    /\ lastCheck = NoText
    /\ interval = TRUE
    /\ checks = {1}
    /\ abortTimers = {1}
    /\ checksStarted = 1
    /\ lateUpdates = 0

\* checkBackendStatus up to its await: the status is set, the abort timer
\* armed and the fetch issued.
checkBackendStatusStarts ==
    /\ checksStarted < MaxChecks
    /\ badgeStatus' = "checking"
    /\ checks' = checks \cup {checksStarted + 1}
    /\ abortTimers' = abortTimers \cup {checksStarted + 1}
    /\ checksStarted' = checksStarted + 1
    /\ UNCHANGED <<mounted, lastCheck, interval, lateUpdates>>
    /\ UNCHANGED otherThanStatus

\* setStatus(s); setLastCheck(new Date()) at the end of a check: they take
\* effect while the component is mounted.
checkEndsWith(s) ==
    IF mounted
    THEN /\ badgeStatus' = s
         /\ lastCheck' = "<now>"
         /\ UNCHANGED lateUpdates
    ELSE /\ lateUpdates' = lateUpdates + 1
         /\ UNCHANGED <<badgeStatus, lastCheck>>

\* The 30 s interval fires.
Tick ==
    /\ screen = "apistatus"
    /\ interval
    /\ checkBackendStatusStarts
    /\ event' = [type |-> "tick"]

\* Click on the badge.
ClickBadge ==
    /\ screen = "apistatus"
    /\ mounted
    /\ checkBackendStatusStarts
    /\ event' = [type |-> "click"]

\* The fetch of check n resolves with a response: the rest of the try.
CheckResolves(n, ok) ==
    /\ screen = "apistatus"
    /\ n \in checks
    /\ checks' = checks \ {n}
    /\ abortTimers' = abortTimers \ {n}
    /\ checkEndsWith(IF ok THEN "online" ELSE "error")
    /\ event' = [type |-> "resolved", check |-> n]
    /\ UNCHANGED <<mounted, interval, checksStarted>>
    /\ UNCHANGED otherThanStatus

\* The fetch of check n rejects (the transport failed): the catch.
CheckRejects(n) ==
    /\ screen = "apistatus"
    /\ n \in checks
    /\ checks' = checks \ {n}
    /\ checkEndsWith("offline")
    /\ event' = [type |-> "rejected", check |-> n]
    /\ UNCHANGED <<mounted, interval, abortTimers, checksStarted>>
    /\ UNCHANGED otherThanStatus

\* The 5 s timer of check n fires: controller.abort(), and a fetch still in
\* flight rejects into the catch.
AbortTimerFires(n) ==
    /\ screen = "apistatus"
    /\ n \in abortTimers
    /\ abortTimers' = abortTimers \ {n}
    /\ IF n \in checks
       THEN /\ checks' = checks \ {n}
            /\ checkEndsWith("offline")
       ELSE UNCHANGED <<checks, badgeStatus, lastCheck, lateUpdates>>
    /\ event' = [type |-> "abortTimer", check |-> n]
    /\ UNCHANGED <<mounted, interval, checksStarted>>
    /\ UNCHANGED otherThanStatus

\* The component unmounts: the effect's cleanup, clearInterval(interval).
Unmount ==
    /\ screen = "apistatus"
    /\ mounted
    /\ mounted' = FALSE
    /\ interval' = FALSE
    /\ event' = [type |-> "unmount"]
    /\ UNCHANGED <<badgeStatus, lastCheck, checks, abortTimers, checksStarted,
                   lateUpdates>>
    /\ UNCHANGED otherThanStatus

NextStatus ==
    \/ Tick
    \/ ClickBadge
    \/ \E n \in checks, ok \in BOOLEAN : CheckResolves(n, ok)
    \/ \E n \in checks : CheckRejects(n)
    \/ \E n \in abortTimers : AbortTimerFires(n)
    \/ Unmount

----------------------------------------------------------------------------
(* Normalizer harness *)

\* normalizeDenial applied to the backend record.
Normalize ==
    /\ screen = "normalizer"
    /\ normalized = null
    /\ normalized' = normalizeDenial(rawDenial)
    /\ warned' = StatusWarning(rawDenial)
    /\ event' = [type |-> "normalize"]
    /\ UNCHANGED rawDenial
    /\ UNCHANGED otherThanNormalizer

NextNormalizer == Normalize

----------------------------------------------------------------------------
(* Specifications *)

InitNormalizer ==
    /\ screen = "normalizer"
    /\ event = [type |-> "init"]
    /\ rawDenial \in RawDenials
    /\ normalized = null
    /\ warned = FALSE
    /\ InitUploadVars
    /\ InitDetailVars
    /\ InitListVars
    /\ InitCallVars
    /\ InitStatusVars

InitUpload ==
    /\ screen = "upload"
    /\ event = [type |-> "init"]
    /\ rawDenial = null
    /\ normalized = null
    /\ warned = FALSE
    /\ InitUploadVars
    /\ InitDetailVars
    /\ InitListVars
    /\ InitCallVars
    /\ InitStatusVars

\* The detail page after its mount effect: the first load is in flight.
InitDetail ==
    /\ screen = "detail"
    /\ event = [type |-> "init"]
    /\ rawDenial = null
    /\ normalized = null
    /\ warned = FALSE
    /\ InitUploadVars
    /\ InitDetailVars
    /\ InitListVars
    /\ InitCallVars
    /\ InitStatusVars

\* The dashboard after its mount effect: the first fetch is in flight.
InitList ==
    /\ screen = "dashboard"
    /\ event = [type |-> "init"]
    /\ rawDenial = null
    /\ normalized = null
    /\ warned = FALSE
    /\ InitUploadVars
    /\ InitDetailVars
    /\ InitListVars
    /\ InitCallVars
    /\ InitStatusVars

\* One call of a function, its argument drawn from the calls modelled.
InitCalls ==
    /\ screen = "calls"
    /\ event = [type |-> "init"]
    /\ rawDenial = null
    /\ normalized = null
    /\ warned = FALSE
    /\ InitUploadVars
    /\ InitDetailVars
    /\ InitListVars
    /\ call \in Calls
    /\ result = null
    /\ InitStatusVars

\* The badge after its mount effect.
InitStatus ==
    /\ screen = "apistatus"
    /\ event = [type |-> "init"]
    /\ rawDenial = null
    /\ normalized = null
    /\ warned = FALSE
    /\ InitUploadVars
    /\ InitDetailVars
    /\ InitListVars
    /\ InitCallVars
    /\ InitStatusVars

Init ==
    \/ InitNormalizer
    \/ InitUpload
    \/ InitDetail
    \/ InitList
    \/ InitCalls
    \/ InitStatus

Next ==
    \/ NextNormalizer
    \/ NextUpload
    \/ NextDetail
    \/ NextList
    \/ NextCalls
    \/ NextStatus

Spec == Init /\ [][Next]_vars

SpecNormalizer == InitNormalizer /\ [][NextNormalizer]_vars

SpecUpload == InitUpload /\ [][NextUpload]_vars

\* The XMLHttpRequest of uploadRequest ends with a load, an error or (after
\* xhr.timeout = uploadTimeout) a timeout event: a request in flight settles.
UploadSettles ==
    \E i \in DOMAIN uploads, o \in UploadOutcomes :
        UploadResolves(i, o) \/ UploadRejects(i, o)

SpecUploadLive == InitUpload /\ [][NextUpload]_vars /\ WF_vars(UploadSettles)

SpecDetail == InitDetail /\ [][NextDetail]_vars

SpecList == InitList /\ [][NextList]_vars

SpecCalls == InitCalls /\ [][NextCalls]_vars

SpecStatus == InitStatus /\ [][NextStatus]_vars

\* Everything that holds denial records: the normalizer, the detail view and
\* the dashboard list.
InitRecords == InitNormalizer \/ InitDetail \/ InitList
NextRecords == NextNormalizer \/ NextDetail \/ NextList
SpecRecords == InitRecords /\ [][NextRecords]_vars

\* The screens whose controls issue upload, RCA and appeal requests.
InitRequests == InitUpload \/ InitDetail
NextRequests == NextUpload \/ NextDetail
SpecRequests == InitRequests /\ [][NextRequests]_vars

----------------------------------------------------------------------------
(* Claims about the normalizer *)

TableEntries ==
    {Str("New"), Str("In Review"), Str("RCA Completed"), Str("Appeal Generated"),
     Str("Appeal Filed"), Str("Denied"), Str("Resolved")}

\* The reference mapping of the specification, on the trimmed status.
RefStatus(b) ==
    IF b \in {Str("New"), Str("In Review"), Str("RCA Completed")} THEN "In Review"
    ELSE IF b \in {Str("Appeal Generated"), Str("Appeal Filed")} THEN "Appeal Filed"
    ELSE IF b = Str("Denied") THEN "Denied"
    ELSE IF b = Str("Resolved") THEN "Resolved"
    ELSE "In Review"

\* C2: the status normalizeDenial returns is the reference mapping of the
\* trimmed, case-sensitive backend status, and a warning is emitted exactly
\* for the inputs that are not in the table.
C2_StatusMapping ==
    normalized # null =>
        LET b == BackendStatus(rawDenial) IN
        /\ normalized.status = Str(RefStatus(b))
        /\ warned = (b \notin TableEntries)

\* A padded table entry is mapped without a warning.
C2_Witness ==
    /\ normalized # null
    /\ rawDenial.status = Str(<<" ", "Appeal", " ", "Generated", "\t">>)
    /\ normalized.status = Str("Appeal Filed")
    /\ ~warned

IsAbsent(x) == x \in {Undefined, JNull, Str(""), Num(0)}

\* C3: whatever subset of backend fields is absent, null or empty, no
\* required field of the returned Denial is undefined or null, and location,
\* patientName, claimAmount and priority take their literal defaults.
C3_RequiredFields ==
    normalized # null =>
        /\ \A f \in RequiredFields : ~IsNullish(normalized[f])
        /\ IsAbsent(rawDenial.location) =>
               normalized.location = Str("Unknown Location")
        /\ IsAbsent(rawDenial.patientName) =>
               normalized.patientName = Str("Unknown Patient")
        /\ IsAbsent(rawDenial.amount) => normalized.claimAmount = Num(0)
        /\ normalized.priority = Str("medium")

\* Every backend field absent, in mixed ways.
C3_Witness ==
    /\ normalized # null
    /\ \A f \in AllBackendFields : IsAbsent(rawDenial[f])
    /\ rawDenial.location = JNull
    /\ rawDenial.patientName = Str("")
    /\ \E f \in AllBackendFields : rawDenial[f] = Undefined
    /\ normalized.location = Str("Unknown Location")
    /\ normalized.claimAmount = Num(0)

----------------------------------------------------------------------------
(* Claims about the upload flow *)

\* The five states of the upload flow, read off the modal's state.
UploadFailureTexts ==
    {ClassifyUploadError(UploadErrorMessage(o)) :
        o \in {x \in UploadOutcomes : ~UploadOk(x)}}

FlowState ==
    IF isUploading THEN "Uploading"
    ELSE IF success THEN "Success"
    ELSE IF file = null THEN "Idle"
    ELSE IF uploadError \in UploadFailureTexts THEN "Failed"
    ELSE "FileSelected"

\* A name that does not end in .zip whatever the case, or a size over 100 MiB.
IsZipName(f) ==
    f.name # <<>> /\ f.name[Len(f.name)] \in {".zip", ".ZIP", ".Zip"}

Invalid(f) == ~IsZipName(f) \/ f.size > 104857600

IsSelection(e) == e.type \in {"select", "drop"}

\* C4 as claimed: after an invalid selection a validation message is shown,
\* no file is selected and the upload cannot be started.
C4_Original ==
    (IsSelection(event) /\ Invalid(event.file)) =>
        /\ uploadError \in {MsgNotZip, MsgTooLarge}
        /\ file = null
        /\ ~UploadEnabled

\* C4 as amended: an invalid selection shows a validation message and changes
\* neither the selected file nor the requests in flight; a valid one (a .zip
\* of exactly 100 MiB included) becomes the selected file; no rejected file is
\* ever selected or uploaded.
C4_Amended ==
    [][/\ IsSelection(event') =>
            IF Invalid(event'.file)
            THEN /\ uploadError' \in {MsgNotZip, MsgTooLarge}
                 /\ file' = file
                 /\ uploads' = uploads
                 /\ isUploading' = isUploading
                 /\ (file = null => ~UploadEnabled')
            ELSE /\ file' = event'.file
                 /\ uploadError' = NoText
       /\ file' # null => ~Invalid(file')
       /\ \A i \in DOMAIN uploads' : ~Invalid(uploads'[i].file)]_vars

\* An over-size file was offered while a file was selected: the selection stays.
C4_Witness ==
    /\ IsSelection(event)
    /\ event.file.size > 104857600
    /\ uploadError = MsgTooLarge
    /\ file # null
    /\ file.size = 104857600
    /\ UploadEnabled

SpecTransitions ==
    {<<"Idle", "FileSelected">>, <<"FileSelected", "Uploading">>,
     <<"Uploading", "Success">>, <<"Uploading", "Failed">>,
     <<"Failed", "FileSelected">>, <<"Success", "Idle">>}

\* C5 as claimed: the flow moves only along the transitions of the
\* specification's state machine.
C5_Original ==
    [][FlowState' # FlowState => <<FlowState, FlowState'>> \in SpecTransitions]_vars

CodeTransitions ==
    SpecTransitions \cup
        {<<"FileSelected", "Idle">>, <<"Failed", "Idle">>,
         <<"Failed", "Uploading">>, <<"Uploading", "Idle">>}

\* C5 as amended: besides the transitions of the specification the flow
\* moves FileSelected -> Idle and Failed -> Idle (Remove, Cancel, dismissal,
\* auto-close), Failed -> Uploading (re-submission) and Uploading -> Idle (a
\* failure after the file was cleared); Success is entered only from
\* Uploading and left only to Idle.
C5_Amended ==
    [][FlowState' # FlowState => <<FlowState, FlowState'>> \in CodeTransitions]_vars

\* Remove took the flow from FileSelected back to Idle.
C5_Witness ==
    /\ event.type = "remove"
    /\ FlowState = "Idle"
    /\ uploadError = NoText
    /\ uploadsStarted = 0

\* The remediation text of each category of transport failure.
Remediation(o) ==
    CASE o.type = "timeout" -> MsgTimeout
      [] o.type = "error" -> MsgNetwork
      [] o.type = "load" /\ o.status = 415 -> Msg415
      [] o.type = "load" /\ o.status = 413 -> Msg413
      [] o.type = "load" /\ o.status = 500 -> Msg500
      [] OTHER -> Text(UploadErrorMessage(o))

\* C6: a failed upload shows the remediation text of the category of the
\* transport failure that ended it; a network failure shows the
\* network-error text.
C6_Classification ==
    event.type = "rejected" => uploadError = Remediation(event.outcome)

\* C7: while an upload is in flight the tracked progress stays in 0..100
\* and never decreases, and it is 100 when the upload succeeds.
C7_ProgressMonotonic ==
    [][/\ uploadProgress' \in 0..100
       /\ (isUploading /\ isUploading') => uploadProgress' >= uploadProgress
       /\ event'.type = "resolved" => uploadProgress' = 100]_vars

\* C8: when the auto-close timer of a successful upload fires, onClose has
\* been invoked exactly once for that upload and the flow is closed and Idle.
C8_ClosedExactlyOnce ==
    event.type = "timer" =>
        /\ lastTimerCloses = 1
        /\ ~isOpen
        /\ FlowState = "Idle"


----------------------------------------------------------------------------
(* Claims about the records held, the requests in flight and the analysis *)

Canonical(d) == d.status.t = "string" /\ d.status.v \in ValidStatuses

\* C1: in every reachable state, the record the detail view holds, every
\* record of the dashboard list and every record normalizeDenial returned has
\* a status that is one of "In Review", "Appeal Filed", "Denied", "Resolved":
\* whatever the backend sent as status, and after any sequence of loads,
\* refreshes, analyses and appeal generations.
C1_StatusCanonical ==
    /\ normalized # null => Canonical(normalized)
    /\ denial # null => Canonical(denial)
    /\ \A i \in 1..Len(denials) : Canonical(denials[i])

\* The detail view holds the record the backend sent with the status
\* "Escalated", an analysis has run on it, and its status is "In Review".
C1_Witness ==
    /\ screen = "detail"
    /\ denial # null
    /\ denial.rcaResult = JNull
    /\ denial.patientName = Str("Unknown Patient")
    /\ denial.rcaStatus = Str("completed")
    /\ denial.status = Str("In Review")

\* C9: at any time at most one upload request, at most one RCA request and
\* at most one appeal request of a screen instance is in flight, and while
\* one is in flight the control that triggers it is not enabled.
C9_OneRequestPerControl ==
    /\ Len(uploads) <= 1
    /\ Len(rcaRequests) <= 1
    /\ Len(appealRequests) <= 1
    /\ uploads # <<>> => ~UploadEnabled
    /\ rcaRequests # <<>> => ~AnalyzeEnabled
    /\ appealRequests # <<>> => ~AppealEnabled

\* An RCA and an appeal request are in flight with the denial shown, and the
\* page could still issue requests.
C9_Witness ==
    /\ screen = "detail"
    /\ DetailShown
    /\ Len(rcaRequests) = 1
    /\ Len(appealRequests) = 1
    /\ requestsStarted < MaxRequests

\* The answer to the RCA call is a 2xx JSON envelope that carries an rcaResult
\* object (a null rcaResult counts as none).
EnvelopeHasRcaResult(o) ==
    /\ o.type = "response"
    /\ o.status \in 200..299
    /\ o.contentType = "application/json"
    /\ o.json.t = "object"
    /\ "rcaResult" \in DOMAIN o.json.v
    /\ o.json.v.rcaResult.t = "object"

Member(obj, name) == IF name \in DOMAIN obj.v THEN obj.v[name] ELSE Undefined

\* The displayed result shows the members of the rcaResult object.
ShowsUnwrapped(shown, rca) ==
    /\ shown.source = "api"
    /\ shown.apiResponse.analysis = Member(rca, "analysis")
    /\ shown.apiResponse.recommendations = Member(rca, "recommendations")
    /\ shown.apiResponse.ediFileAnalysis = Member(rca, "ediFileAnalysis")
    /\ shown.apiResponse.contentAnalysis = Member(rca, "contentAnalysis")
    /\ shown.apiResponse.status = Member(rca, "status")
    /\ shown.apiResponse.jobId = Member(rca, "jobId")
    /\ shown.apiResponse.completedAt = Member(rca, "analysisCompletedAt")

\* The displayed result is one of the two locally synthesized analyses.
ShowsOffline(shown) ==
    /\ shown.source = "offline"
    /\ shown.issues \in {PriorAuthorizationIssues, DefaultIssues}

\* A step in which an RCA request settles.
RcaSettledStep ==
    /\ event'.type = "rcaSettled"
    /\ Len(rcaRequests') < Len(rcaRequests)

\* C10: when the RCA call settles, the analyzing flag is cleared and neither
\* the page's error nor its loading state changes; if the answer is a 2xx
\* envelope with an rcaResult, the displayed result is that rcaResult
\* unwrapped; in every other case (transport error, non-2xx, no rcaResult) the
\* displayed result is a locally synthesized one.
C10_RcaFallback ==
    [][RcaSettledStep =>
        /\ ~isAnalyzing'
        /\ error' = error
        /\ isLoading' = isLoading
        /\ rcaResult' # null
        /\ IF EnvelopeHasRcaResult(event'.outcome)
           THEN ShowsUnwrapped(rcaResult', event'.outcome.json.v.rcaResult)
           ELSE ShowsOffline(rcaResult')]_vars

\* The RCA call was answered 200 with an envelope that has no rcaResult, and
\* the offline analysis is displayed with the analyzing flag cleared.
C10_Witness ==
    /\ event.type = "rcaSettled"
    /\ event.outcome.type = "response"
    /\ event.outcome.status = 200
    /\ event.outcome.json.t = "object"
    /\ "rcaResult" \notin DOMAIN event.outcome.json.v
    /\ rcaResult # null
    /\ rcaResult.source = "offline"
    /\ ~isAnalyzing
    /\ error = NoText

----------------------------------------------------------------------------
(* Claims about the offline analysis and the request gateway *)

\* The reasons whose lower-cased text contains "prior authorization" or
\* "co197", listed by hand.
PriorAuthorizationReasons ==
    {Str("Denied - CO197 prior authorization required"),
     Str("Prior Authorization missing"),
     Str("PRIOR AUTHORIZATION REQUIRED"),
     Str("Code co197"),
     Str("Co197")}

HasIssue(r, category) ==
    \E i \in 1..Len(r.issues) : r.issues[i].category = category

\* C11: generateContextualRCA returns, for every denial (its reason missing,
\* null or empty included), an offline result of exactly three issues that
\* depends on nothing but the reason: with "prior authorization" or "co197"
\* in the lower-cased reason it has an issue of category "Prior
\* Authorization" and severity High, and otherwise it is the generic analysis,
\* which has an issue of category "Documentation".
C11_OfflineRca ==
    (call # null /\ call.fn = "generateContextualRCA" /\ result # null) =>
        /\ result.source = "offline"
        /\ Len(result.issues) = 3
        /\ IF call.arg.denialReason \in PriorAuthorizationReasons
           THEN \E i \in 1..3 :
                    /\ result.issues[i].category = "Prior Authorization"
                    /\ result.issues[i].severity = "High"
           ELSE /\ HasIssue(result, "Documentation")
                /\ ~HasIssue(result, "Prior Authorization")
        /\ \A d \in DenialArguments :
              d.denialReason = call.arg.denialReason =>
                  generateContextualRCA(d) = result

\* The call was made for a denial without a reason and returned the generic
\* analysis.
C11_Witness ==
    /\ call # null
    /\ call.fn = "generateContextualRCA"
    /\ call.arg.denialReason = Undefined
    /\ result # null
    /\ Len(result.issues) = 3
    /\ HasIssue(result, "Documentation")

\* The call is a settled call of request() for this kind of network outcome.
RequestSettledFor(kind) ==
    /\ call # null
    /\ call.fn = "request"
    /\ result # null
    /\ call.arg.type = kind

\* The JSON body of the response has a non-empty text as its message.
HasMessage(o) ==
    /\ o.json.t = "object"
    /\ "message" \in DOMAIN o.json.v
    /\ o.json.v.message.t = "pstring"
    /\ Text(o.json.v.message.v) # ""

\* C15: for every response that is not 2xx, request() throws (it returns no
\* value) one Error whose message is the message member of the JSON body when
\* the body parses and that member is a non-empty text, and
\* "HTTP <status>: <statusText>" otherwise.
C15_HttpError ==
    (RequestSettledFor("response") /\ call.arg.status \notin 200..299) =>
        /\ ~result.ok
        /\ result.error.name = "Error"
        /\ Text(result.error.message) =
              IF HasMessage(call.arg)
              THEN Text(call.arg.json.v.message.v)
              ELSE "HTTP " \o ToString(call.arg.status) \o ": " \o call.arg.statusText

\* A 404 whose JSON body says "Denial not found" was thrown with that text.
C15_Witness ==
    /\ RequestSettledFor("response")
    /\ call.arg.status = 404
    /\ HasMessage(call.arg)
    /\ ~result.ok
    /\ Text(result.error.message) = "Denial not found"

\* C16: whenever the fetch itself rejects, request() throws an error with the
\* message "Network Error: Unable to connect to backend API".
C16_NetworkError ==
    RequestSettledFor("reject") =>
        /\ ~result.ok
        /\ Text(result.error.message) = "Network Error: Unable to connect to backend API"

----------------------------------------------------------------------------
(* Claims about appeals and the provenance of the analysis *)

\* The appeal call failed: the fetch rejected, the answer was not 2xx, or its
\* JSON body did not parse.
AppealFailed(o) ==
    \/ o.type = "reject"
    \/ o.status \notin 200..299
    \/ o.contentType = "application/json" /\ o.json = NotJson

\* A step in which an appeal request settles.
AppealSettledStep ==
    /\ event'.type = "appealSettled"
    /\ Len(appealRequests') < Len(appealRequests)

\* The appeal result `a` is the offline one written for the denial d.
OfflineAppealFor(a, d) ==
    /\ a # null
    /\ a.t = "object"
    /\ a.v.appealStatus = Str("Generated Offline")
    /\ a.v.jobId = Num(0)
    /\ a.v.supportDocumentLinks = Arr(<<>>)
    /\ a.v.missingInformation = Arr(<<>>)
    /\ a.v.emailDraft.patientName = d.patientName
    /\ a.v.emailDraft.claimNumber = d.claimNumber
    /\ a.v.emailDraft.claimAmount = ToLocaleString(d.claimAmount)
    /\ a.v.emailDraft.serviceDate = ToLocaleDateString(d.date)
    /\ a.v.emailDraft.denialReason = d.denialReason
    /\ a.v.emailDraft.location = d.location

\* C12: when the appeal call fails, the displayed appeal result becomes the
\* offline one (status "Generated Offline", jobId 0, no document links, no
\* missing information) whose letter carries the patient name, claim number,
\* amount, date, reason and location of the denial the appeal was asked for,
\* and the preparing flag is cleared.
C12_AppealFallback ==
    [][(AppealSettledStep /\ AppealFailed(event'.outcome)) =>
        /\ OfflineAppealFor(appealResult', appealRequests[1].denial)
        /\ ~isPreparingAppeal']_vars

\* The appeal call was answered 500 and the offline appeal is displayed.
C12_Witness ==
    /\ event.type = "appealSettled"
    /\ event.outcome = ServerError
    /\ denial # null
    /\ OfflineAppealFor(appealResult, denial)
    /\ ~isPreparingAppeal

\* The tag of a result fits what the result carries: "api" with a backend
\* analysis bundle and no local issues, "offline" with local issues and no
\* bundle.
TagFits(r) ==
    /\ r.source \in {"api", "offline"}
    /\ r.source = "api" <=> ("apiResponse" \in DOMAIN r /\ r.issues = <<>>)
    /\ r.source = "offline" <=>
          ("apiResponse" \notin DOMAIN r
              /\ r.issues \in {PriorAuthorizationIssues, DefaultIssues})

\* A step in which the load of the record settles.
LoadedStep ==
    /\ event'.type = "loaded"
    /\ loadRequests' < loadRequests

\* C13: the held RCA result is tagged "api" exactly when it carries a backend
\* analysis bundle and "offline" exactly when it is a local synthesis; a
\* settled RCA call leaves an "api" result when the envelope had an rcaResult
\* and an "offline" one when the call failed, a load leaves an "api" result
\* when the record carries an rcaResult and the held result otherwise, and no
\* other step changes the held result.
C13_SourceTag ==
    [][/\ rcaResult' # null => TagFits(rcaResult')
       /\ IF RcaSettledStep
          THEN rcaResult'.source =
                  IF EnvelopeHasRcaResult(event'.outcome) THEN "api" ELSE "offline"
          ELSE IF LoadedStep /\ denial' # null /\ denial'.rcaResult.t = "object"
          THEN /\ rcaResult'.source = "api"
               /\ ShowsUnwrapped(rcaResult', denial'.rcaResult)
          ELSE rcaResult' = rcaResult]_vars

\* An offline result is held, and a later reload of the record (which carries
\* no rcaResult) has left it and its tag in place.
C13_Witness ==
    /\ event.type = "loaded"
    /\ denial # null
    /\ denial.rcaResult.t # "object"
    /\ rcaResult # null
    /\ rcaResult.source = "offline"

\* C14: right after an appeal request has settled (remote success or offline
\* fallback), every place the view holds an appeal result holds the new one
\* or none: the record's appealResult is the displayed result, and the
\* record's appealLetter is the letter of the displayed result.
C14_ReplacedWholesale ==
    (event.type = "appealSettled" /\ denial # null) =>
        /\ appealResult # null
        /\ denial.appealResult \in {Undefined, appealResult}
        /\ denial.appealLetter \in {Undefined, Get(appealResult, "emailDraft")}

----------------------------------------------------------------------------
(* Claims about the backend-health badge *)

\* C17: an abort timer is pending only for a check whose fetch is in flight
\* (it is cleared when the check ends, by success or by failure), and after
\* the unmount no interval, abort timer or in-flight check is left and no
\* state update is issued.
C17_NoLeakedTimers ==
    /\ abortTimers \subseteq checks
    /\ ~mounted => (~interval /\ abortTimers = {} /\ checks = {})
    /\ lateUpdates = 0

----------------------------------------------------------------------------
(* Claims about failed uploads, the advisory and the retry path *)

\* C18: right after an upload request has ended in failure, the flow is in
\* Failed with a non-empty error message displayed in the open dialog, the
\* uploading flag is cleared and success is not set.
C18_FailureSurfaced ==
    event.type = "rejected" =>
        /\ FlowState = "Failed"
        /\ isOpen
        /\ uploadError \notin {NoText, ""}
        /\ ~isUploading
        /\ ~success

\* C19: right after a valid .zip file was selected or dropped, it is the
\* selected file, the large-file advisory is raised exactly when its size is
\* above 50 MiB, no error is shown, and unless an upload is in flight the
\* upload can be started.
C19_LargeFileAdvisory ==
    (event.type \in {"select", "drop"} /\ ~Invalid(event.file)) =>
        /\ file = event.file
        /\ timeoutWarning = (event.file.size > 50 * 1024 * 1024)
        /\ uploadError = NoText
        /\ ~isUploading => UploadEnabled

\* A .zip file of 60 MiB was selected: the advisory is raised and the upload
\* can be started.
C19_Witness ==
    /\ event.type = "select"
    /\ event.file.size = 60 * 1024 * 1024
    /\ file = event.file
    /\ timeoutWarning
    /\ UploadEnabled

\* A step in which an upload request ends in failure.
UploadRejectedStep ==
    /\ event'.type = "rejected"
    /\ Len(uploads') < Len(uploads)

C21_UploadEnds ==
    isUploading ~> (~isUploading /\ FlowState \in {"Success", "Failed"})

\* C23: while an upload is in flight the selected file is the file that was
\* submitted with the request.
C23_FileHeld ==
    isUploading =>
        /\ uploads # <<>>
        /\ file = uploads[Len(uploads)].file

\* C24: while the uploading flag is set, no Cancel, dismissal or auto-close
\* timer changes the selected file, the progress or the error, or closes the
\* dialog.
C24_NoResetWhileUploading ==
    [][(isUploading /\ event'.type \in {"cancel", "dismiss", "timer"}) =>
        UNCHANGED <<file, uploadProgress, uploadError, isOpen>>]_vars

\* The backend status of the record, trimmed, is "RCA Completed".
IsRcaCompleted(raw) ==
    /\ raw.status.t = "string"
    /\ Text(Trim(raw.status.v)) = "RCA Completed"

\* The record carries an rcaResult with a non-empty analysis.
HasAnalysis(raw) ==
    /\ raw.rcaResult.t = "object"
    /\ "analysis" \in DOMAIN raw.rcaResult.v
    /\ raw.rcaResult.v.analysis.t = "string"
    /\ raw.rcaResult.v.analysis.v # ""

\* C22: normalizeDenialDetail gives a rootCause exactly for the records whose
\* status, trimmed, is "RCA Completed": the analysis of the rcaResult verbatim
\* when it has a non-empty one, otherwise the fixed sentence; for every other
\* status rootCause is undefined, with or without an rcaResult.
C22_RootCause ==
    (call # null /\ call.fn = "normalizeDenialDetail" /\ result # null) =>
        /\ result.ok
        /\ result.value.rootCause =
              IF ~IsRcaCompleted(call.arg) THEN Undefined
              ELSE IF HasAnalysis(call.arg) THEN call.arg.rcaResult.v.analysis
              ELSE Str("Root cause analysis completed. Issues identified from extracted documentation data.")

\* A record with status " RCA Completed" padded and a stored analysis was
\* normalized, and its rootCause is that analysis.
C22_Witness ==
    /\ call # null /\ call.fn = "normalizeDenialDetail" /\ result # null
    /\ call.arg.status = Str(<<" ", "RCA", " ", "Completed", " ">>)
    /\ call.arg.rcaResult = StoredRca
    /\ result.value.rootCause = Str("Authorization was on file")

\* C25: the loading flag is set whenever a list fetch is in flight, and once
\* every fetch has completed the list and the error on display are the result
\* of the fetch that was started last.
C25_LatestFetchWins ==
    /\ listRequests # <<>> => listLoading
    /\ (listRequests = <<>> /\ event.type = "fetched") =>
          LET r == getDenials(event.outcome) IN
          /\ event.request = fetchesStarted
          /\ denials = (IF r.ok THEN r.value ELSE <<>>)
          /\ listError = (IF r.ok THEN NoText ELSE Text(r.error.message))

\* C26: while the badge is mounted it shows "checking" exactly when at least
\* one health check is in flight.
C26_CheckingWhileInFlight ==
    mounted => (badgeStatus = "checking" <=> checks # {})

\* C27: while an RCA analysis is in flight a status-line message is
\* displayed.
C27_StatusWhileAnalyzing ==
    isAnalyzing => analysisStatus # NoText

\* The appeal tab shows an appeal result with the "Appeal Previously
\* Generated" heading and the "From API" badge.
FromApiLabelShown ==
    /\ DetailShown
    /\ rcaResult # null
    /\ appealResult # null
    /\ TruthyJson(appealResult)
    /\ TruthyJson(denial.appealResult)

\* C28: whenever the "From API" label is shown, the appeal result on display
\* is the one the denial record carries, and it is not an offline one.
C28_FromApiLabel ==
    FromApiLabelShown =>
        /\ appealResult = denial.appealResult
        /\ Get(appealResult, "appealStatus") # Str("Generated Offline")

\* C29: right after an RCA that fell back to the offline analysis, the root
\* cause stored on the denial is the text naming a prior-authorization denial
\* as the primary issue only if the offline result has an issue of category
\* "Prior Authorization".
C29_RootCauseAgrees ==
    (event.type = "rcaSettled" /\ denial # null /\ rcaResult # null
        /\ rcaResult.source = "offline") =>
        (denial.rootCause =
            Str("Analysis completed (offline mode): Prior authorization denial for emergency services identified as primary issue.")
            => HasIssue(rcaResult, "Prior Authorization"))

\* C30: an appeal request is issued only in a state where an RCA result is
\* held, and no step (load, refresh, analysis, appeal, their completions)
\* takes a held RCA result away.
C30_RcaResultKept ==
    [][/\ event'.type = "prepareAppeal" => rcaResult # null
       /\ rcaResult # null => rcaResult' # null]_vars

\* An appeal request is in flight after a reload of the record has failed,
\* and the RCA result is still held.
C30_Witness ==
    /\ appealRequests # <<>>
    /\ denial = null
    /\ error # NoText
    /\ rcaResult # null

====
